---- MODULE Spec2Model ----
(***************************************************************************)
(* Multi-LLM router of src/src/llm/router.py: provider health counters     *)
(* (BaseLLMProvider), the response cache (LLMCache) and the router         *)
(* (LLMRouter.select_provider / LLMRouter.generate_response).              *)
(*                                                                         *)
(* Providers are named 1..Len(providers) in registration order (the        *)
(* insertion order of the dict self.providers); provider p serves model p. *)
(* None is 0.  Latencies are integers; float quotients are kept as         *)
(* <<numerator, denominator>> pairs and compared by cross-multiplication.  *)
(* A cache entry carries its age, datetime.now() - entry['timestamp'], in  *)
(* clock ticks instead of the timestamp itself: the code reads the         *)
(* timestamp only in that difference and only to compare it with the ttl,  *)
(* so ages stop growing at ttl.                                            *)
(***************************************************************************)
EXTENDS Integers, Sequences, FiniteSets, TLC

\* ---- bounds of the model ----
NumProviders == 3
MaxUpdates == 3
MaxLatency == 2
MaxCalls == 2
NumPrompts == 1
MaxCacheSize == 1
\* direct use of an LLMCache: prompts, operations and the largest max_size
NumKeys == 3
MaxOps == 5
MaxSize == 2
\* concurrent generate_response calls (asyncio tasks on one event loop)
NumTasks == 2

\* 24 hours (LLMCache default ttl_hours), as 2 ticks of the model clock
TtlTicks == 2

None == 0
Names == 1..NumProviders
Latencies == 1..MaxLatency
\* response_time of an adapter call made by generate_response: one unit
\* (update_stats with other latencies is exercised by UpdateStats)
AdapterLatencies == {1}
Prompts == 1..NumPrompts

VARIABLES
    providers,              \* LLMRouter.providers: name -> provider record
    default_provider_name,  \* LLMRouter.default_provider_name (None = 0)
    fallback_enabled,       \* LLMRouter.fallback_enabled
    cache,                  \* LLMCache.cache: key -> [response, age]
    access_order,           \* LLMCache.access_order
    max_size,               \* LLMCache.max_size
    ttl,                    \* LLMCache.ttl
    responses,              \* the live LLMResponse objects, by identity
    pc,                     \* position of the generate_response call
    request,                \* its arguments
    provider,               \* its local `provider` (None before selection)
    fallback,               \* its local `fallback` (None while not chosen)
    invoked,                \* adapter invocations made by the call, in order
    result,                 \* the LLMResponse it returns (None = 0)
    error,                  \* the exception it raises (NoError = none)
    before,                 \* providers as they were when the call began
    ncalls,                 \* generate_response calls begun so far
    nupdates,               \* direct update_stats calls made so far
    selection,              \* last direct select_provider call
    lastop,                 \* last direct LLMCache call and its outcome
    nops,                   \* direct LLMCache calls made so far
    touch,                  \* history: key -> index of the direct call that
                            \* last inserted it or hit it with get
    tasks                   \* concurrent generate_response calls, by task

vars == <<providers, default_provider_name, fallback_enabled, cache,
          access_order, max_size, ttl, responses, pc, request, provider,
          fallback, invoked, result, error, before, ncalls, lastop, nops,
          touch, tasks, nupdates,
          selection>>

routerVars == <<default_provider_name, fallback_enabled, max_size, ttl>>
cacheVars == <<cache, access_order, responses>>
callVars == <<pc, request, provider, fallback, invoked, result, error, before,
              ncalls>>

Max(a, b) == IF a >= b THEN a ELSE b

\* exceptions: <<type, provider whose adapter raised it (None = 0)>>
NoError == <<"", None>>
ProviderError(p) == <<"ProviderError", p>>
NoProviderError == <<"RuntimeError", None>>
CacheError(type) == <<type, None>>

\* the arguments of generate_response while no call is in progress
NoRequest == [prompt |-> 0, preferred_provider |-> None, use_cache |-> FALSE]
\* no direct select_provider call made since the last update_stats
NoSelection == [made |-> FALSE, preferred |-> None, provider |-> None]

\* no direct LLMCache call made since construction or the last clock tick
NoKey == <<None, None>>

NoOp ==
    [op |-> "", key |-> NoKey, arg |-> None, value |-> None, raised |-> "",
     had |-> FALSE, age |-> 0, size |-> 0, prev |-> <<"", NoKey>>]

cacheCallVars == <<lastop, nops, touch>>

\* a generate_response coroutine that has not been started.  began,
\* primary_at and ended number the events of the run at which the call
\* began, its primary's adapter returned and it ended (0 = not yet); age
\* counts the clock ticks since primary_at; cached and content are the
\* fields of the result as the caller received it.
Tasks == 1..NumTasks

NewTask ==
    [pc |-> "New", prompt |-> None, preferred_provider |-> None,
     use_cache |-> FALSE, provider |-> None, fallback |-> None,
     invoked |-> <<>>, result |-> None, error |-> NoError,
     cached |-> FALSE, content |-> None,
     peers |-> {}]

\* ---- BaseLLMProvider ----

NewProvider(name, available) ==
    [name |-> name, model_name |-> name, is_available |-> available,
     request_count |-> 0, error_count |-> 0, total_response_time |-> 0]

\* mutant: a failed call is not counted as an error
update_stats_noerror(p, success, response_time) ==
    IF success
    THEN [p EXCEPT !.request_count = @ + 1,
                   !.total_response_time = @ + response_time]
    ELSE [p EXCEPT !.request_count = @ + 1]

\* mutant: request_count is incremented in the success branch only
update_stats_else(p, success, response_time) ==
    IF success
    THEN [p EXCEPT !.request_count = @ + 1,
                   !.total_response_time = @ + response_time]
    ELSE [p EXCEPT !.error_count = @ + 1]

\* mutant: a success overwrites the cumulative time instead of adding to it
update_stats_overwrite(p, success, response_time) ==
    IF success
    THEN [p EXCEPT !.request_count = @ + 1,
                   !.total_response_time = response_time]
    ELSE [p EXCEPT !.request_count = @ + 1,
                   !.error_count = @ + 1]

\* mutant: the response time of a failed call is added as well
update_stats_timed(p, success, response_time) ==
    IF success
    THEN [p EXCEPT !.request_count = @ + 1,
                   !.total_response_time = @ + response_time]
    ELSE [p EXCEPT !.request_count = @ + 1,
                   !.error_count = @ + 1,
                   !.total_response_time = @ + response_time]

update_stats(p, success, response_time) ==
    IF success
    THEN [p EXCEPT !.request_count = @ + 1,
                   !.total_response_time = @ + response_time]
    ELSE [p EXCEPT !.request_count = @ + 1,
                   !.error_count = @ + 1]

get_stats(p) ==
    [success_rate |->
        <<p.request_count - p.error_count, Max(1, p.request_count)>>,
     avg_response_time |->
        <<p.total_response_time, Max(1, p.request_count - p.error_count)>>]

\* ---- comparison of the sort key (success_rate, -avg_response_time) ----

RatLess(a, b) == a[1] * b[2] < b[1] * a[2]

\* mutant: the latency component of the key is not negated
KeyLessSlow(p, q) ==
    LET sp == get_stats(p)
        sq == get_stats(q)
    IN  \/ RatLess(sp.success_rate, sq.success_rate)
        \/ /\ ~RatLess(sq.success_rate, sp.success_rate)
           /\ RatLess(sp.avg_response_time, sq.avg_response_time)

KeyLess(p, q) ==
    LET sp == get_stats(p)
        sq == get_stats(q)
    IN  \/ RatLess(sp.success_rate, sq.success_rate)
        \/ /\ ~RatLess(sq.success_rate, sp.success_rate)
           /\ RatLess(sq.avg_response_time, sp.avg_response_time)

\* list.sort(key=..., reverse=True) is stable: elements with equal keys keep
\* their relative order.  Insert x before the first element of smaller key.
RECURSIVE InsertDesc(_, _, _)
InsertDesc(provs, sorted, x) ==
    IF sorted = <<>> THEN <<x>>
    ELSE IF KeyLess(provs[Head(sorted)], provs[x])
         THEN <<x>> \o sorted
         ELSE <<Head(sorted)>> \o InsertDesc(provs, Tail(sorted), x)

RECURSIVE SortDescFrom(_, _, _)
SortDescFrom(provs, list, sorted) ==
    IF list = <<>> THEN sorted
    ELSE SortDescFrom(provs, Tail(list), InsertDesc(provs, sorted, Head(list)))

SortDesc(provs, list) == SortDescFrom(provs, list, <<>>)

\* mutant: the is_available filter is missing
RECURSIVE AvailableFromAny(_, _, _)
AvailableFromAny(provs, i, excluded) ==
    IF i > Len(provs) THEN <<>>
    ELSE (IF i # excluded THEN <<i>> ELSE <<>>)
         \o AvailableFromAny(provs, i + 1, excluded)

\* [p for p in self.providers.values() if p.is_available and p != excluded]
\* from position i on, in registration order (excluded = None: no exclusion)
RECURSIVE AvailableFrom(_, _, _)
AvailableFrom(provs, i, excluded) ==
    IF i > Len(provs) THEN <<>>
    ELSE (IF provs[i].is_available /\ i # excluded THEN <<i>> ELSE <<>>)
         \o AvailableFrom(provs, i + 1, excluded)

\* mutant: the configured default is tried before the caller's preference
select_provider_default_first(provs, dflt, preferred_provider) ==
    IF /\ dflt # None
       /\ dflt \in DOMAIN provs
       /\ provs[dflt].is_available
    THEN dflt
    ELSE IF /\ preferred_provider # None
            /\ preferred_provider \in DOMAIN provs
            /\ provs[preferred_provider].is_available
    THEN preferred_provider
    ELSE LET available_providers == AvailableFrom(provs, 1, None)
         IN  IF available_providers = <<>> THEN None
             ELSE SortDesc(provs, available_providers)[1]

\* mutant: the default step is missing
select_provider_no_default(provs, dflt, preferred_provider) ==
    IF /\ preferred_provider # None
       /\ preferred_provider \in DOMAIN provs
       /\ provs[preferred_provider].is_available
    THEN preferred_provider
    ELSE LET available_providers == AvailableFrom(provs, 1, None)
         IN  IF available_providers = <<>> THEN None
             ELSE SortDesc(provs, available_providers)[1]

\* mutant: with no available provider the first registered one is used
select_provider_any(provs, dflt, preferred_provider) ==
    IF /\ preferred_provider # None
       /\ preferred_provider \in DOMAIN provs
       /\ provs[preferred_provider].is_available
    THEN preferred_provider
    ELSE IF /\ dflt # None
            /\ dflt \in DOMAIN provs
            /\ provs[dflt].is_available
    THEN dflt
    ELSE LET available_providers == AvailableFrom(provs, 1, None)
         IN  IF available_providers = <<>>
             THEN (IF Len(provs) > 0 THEN 1 ELSE None)
             ELSE SortDesc(provs, available_providers)[1]

\* ---- LLMRouter.select_provider; None models RuntimeError ----

select_provider(provs, dflt, preferred_provider) ==
    IF /\ preferred_provider # None
       /\ preferred_provider \in DOMAIN provs
       /\ provs[preferred_provider].is_available
    THEN preferred_provider
    ELSE IF /\ dflt # None
            /\ dflt \in DOMAIN provs
            /\ provs[dflt].is_available
    THEN dflt
    ELSE LET available_providers == AvailableFrom(provs, 1, None)
         IN  IF available_providers = <<>> THEN None
             ELSE SortDesc(provs, available_providers)[1]

\* ---- LLMResponse objects ----

\* LLMResponse(content, model, usage, response_time): cached defaults to
\* False.  The content stands for the text generated for the prompt; the
\* token usage and the metadata of a generation are determined by it.
NewResponse(content, model, response_time) ==
    [content |-> content, model |-> model, usage |-> content,
     response_time |-> response_time, cached |-> FALSE, metadata |-> content]

\* the identity given to a newly constructed object
NewId(rs) ==
    CHOOSE i \in 1..(Cardinality(DOMAIN rs) + 1) :
        i \notin DOMAIN rs /\ \A j \in 1..(i - 1) : j \in DOMAIN rs

\* the objects still referenced by the cache c
Referenced(rs, c) ==
    [i \in {c[k].response : k \in DOMAIN c} |-> rs[i]]

\* the objects still referenced by the cache c or held by the caller (ids)
Live(rs, c, ids) ==
    [i \in ({c[k].response : k \in DOMAIN c} \cup ids) \cap DOMAIN rs |->
        rs[i]]

\* ---- LLMCache ----

\* _generate_key: md5 of the JSON of prompt, model and kwargs; distinct
\* inputs give distinct keys (the prompt stands for prompt and kwargs).
generate_key(prompt, model) == <<prompt, model>>

\* list.remove(x): drops the first occurrence
RECURSIVE Remove(_, _)
Remove(list, x) ==
    IF list = <<>> THEN <<>>
    ELSE IF Head(list) = x THEN Tail(list)
         ELSE <<Head(list)>> \o Remove(Tail(list), x)

InList(list, x) == \E i \in 1..Len(list) : list[i] = x

DictDel(d, k) == [j \in DOMAIN d \ {k} |-> d[j]]
DictPut(d, k, v) == [j \in DOMAIN d \cup {k} |-> IF j = k THEN v ELSE d[j]]

\* The state of a cache together with the outcome of one operation:
\* value is the returned LLMResponse (None = 0), raised the exception ("").
CacheOutcome(c, ao, rs, value, raised) ==
    [cache |-> c, access_order |-> ao, responses |-> rs, value |-> value,
     raised |-> raised]

\* mutant: the expiry comparison is reversed
cache_get_reversed(c, ao, rs, key, ttlv) ==
    IF key \in DOMAIN c
    THEN LET entry == c[key]
         IN  IF entry.age > ttlv
             THEN IF ~InList(ao, key)
                  THEN CacheOutcome(c, ao, rs, None, "ValueError")
                  ELSE CacheOutcome(c, Append(Remove(ao, key), key),
                           [rs EXCEPT ![entry.response].cached = TRUE],
                           entry.response, "")
             ELSE IF ~InList(ao, key)
                  THEN CacheOutcome(DictDel(c, key), ao, rs, None, "ValueError")
                  ELSE CacheOutcome(DictDel(c, key), Remove(ao, key), rs,
                                    None, "")
    ELSE CacheOutcome(c, ao, rs, None, "")

\* mutant: a hit does not mark the response as cached
cache_get_unmarked(c, ao, rs, key, ttlv) ==
    IF key \in DOMAIN c
    THEN LET entry == c[key]
         IN  IF entry.age < ttlv
             THEN IF ~InList(ao, key)
                  THEN CacheOutcome(c, ao, rs, None, "ValueError")
                  ELSE CacheOutcome(c, Append(Remove(ao, key), key),
                           rs,
                           entry.response, "")
             ELSE IF ~InList(ao, key)
                  THEN CacheOutcome(DictDel(c, key), ao, rs, None, "ValueError")
                  ELSE CacheOutcome(DictDel(c, key), Remove(ao, key), rs,
                                    None, "")
    ELSE CacheOutcome(c, ao, rs, None, "")

\* mutant: an entry whose age equals the ttl is still served
cache_get_inclusive(c, ao, rs, key, ttlv) ==
    IF key \in DOMAIN c
    THEN LET entry == c[key]
         IN  IF entry.age <= ttlv
             THEN IF ~InList(ao, key)
                  THEN CacheOutcome(c, ao, rs, None, "ValueError")
                  ELSE CacheOutcome(c, Append(Remove(ao, key), key),
                           [rs EXCEPT ![entry.response].cached = TRUE],
                           entry.response, "")
             ELSE IF ~InList(ao, key)
                  THEN CacheOutcome(DictDel(c, key), ao, rs, None, "ValueError")
                  ELSE CacheOutcome(DictDel(c, key), Remove(ao, key), rs,
                                    None, "")
    ELSE CacheOutcome(c, ao, rs, None, "")

\* mutant: a hit does not refresh the recency of the key
cache_get_norefresh(c, ao, rs, key, ttlv) ==
    IF key \in DOMAIN c
    THEN LET entry == c[key]
         IN  IF entry.age < ttlv
             THEN IF ~InList(ao, key)
                  THEN CacheOutcome(c, ao, rs, None, "ValueError")
                  ELSE CacheOutcome(c, ao,
                           [rs EXCEPT ![entry.response].cached = TRUE],
                           entry.response, "")
             ELSE IF ~InList(ao, key)
                  THEN CacheOutcome(DictDel(c, key), ao, rs, None, "ValueError")
                  ELSE CacheOutcome(DictDel(c, key), Remove(ao, key), rs,
                                    None, "")
    ELSE CacheOutcome(c, ao, rs, None, "")

\* mutant: a hit renews the timestamp of the entry
cache_get_renewing(c, ao, rs, key, ttlv) ==
    IF key \in DOMAIN c
    THEN LET entry == c[key]
         IN  IF entry.age < ttlv
             THEN IF ~InList(ao, key)
                  THEN CacheOutcome(c, ao, rs, None, "ValueError")
                  ELSE CacheOutcome([c EXCEPT ![key].age = 0],
                           Append(Remove(ao, key), key),
                           [rs EXCEPT ![entry.response].cached = TRUE],
                           entry.response, "")
             ELSE IF ~InList(ao, key)
                  THEN CacheOutcome(DictDel(c, key), ao, rs, None, "ValueError")
                  ELSE CacheOutcome(DictDel(c, key), Remove(ao, key), rs,
                                    None, "")
    ELSE CacheOutcome(c, ao, rs, None, "")

\* LLMCache.get
cache_get(c, ao, rs, key, ttlv) ==
    IF key \in DOMAIN c
    THEN LET entry == c[key]
         IN  IF entry.age < ttlv
             THEN IF ~InList(ao, key)
                  THEN CacheOutcome(c, ao, rs, None, "ValueError")
                  ELSE CacheOutcome(c, Append(Remove(ao, key), key),
                           [rs EXCEPT ![entry.response].cached = TRUE],
                           entry.response, "")
             ELSE IF ~InList(ao, key)
                  THEN CacheOutcome(DictDel(c, key), ao, rs, None, "ValueError")
                  ELSE CacheOutcome(DictDel(c, key), Remove(ao, key), rs,
                                    None, "")
    ELSE CacheOutcome(c, ao, rs, None, "")

\* LLMCache.set
cache_set(c, ao, rs, key, response, maxsz) ==
    LET full == Cardinality(DOMAIN c) >= maxsz /\ key \notin DOMAIN c
    IN  IF full /\ ao = <<>>
        THEN CacheOutcome(c, ao, rs, None, "IndexError")
        ELSE IF full /\ Head(ao) \notin DOMAIN c
        THEN CacheOutcome(c, Tail(ao), rs, None, "KeyError")
        ELSE LET c1 == IF full THEN DictDel(c, Head(ao)) ELSE c
                 ao1 == IF full THEN Tail(ao) ELSE ao
                 c2 == DictPut(c1, key, [response |-> response, age |-> 0])
                 ao2 == IF InList(ao1, key) THEN ao1 ELSE Append(ao1, key)
             IN  CacheOutcome(c2, ao2, rs, None, "")

\* mutant: the recency list is not cleared
cache_clear_values(c, ao, rs) == CacheOutcome(<<>>, ao, rs, None, "")

\* LLMCache.clear
cache_clear(c, ao, rs) == CacheOutcome(<<>>, <<>>, rs, None, "")

\* ---- construction ----

\* LLMRouter.__init__ and _initialize_providers: nInit adapters initialised
\* and were registered; cfg is config llm.preferred_provider.
\* mutant: no default is chosen when none is configured
InitDefaultUnset(cfg, nInit) == cfg

InitDefault(cfg, nInit) ==
    IF nInit = 0 THEN cfg
    ELSE IF cfg = None THEN 1 ELSE cfg

\* The provider table after construction: either the one built by
\* _initialize_providers (only available adapters are registered) or one
\* assigned afterwards, as the test fixture does, which may hold
\* unavailable adapters.
ProviderTables(nInit) ==
    {[i \in 1..nInit |-> NewProvider(i, TRUE)]} \cup
    UNION {{[i \in 1..n |-> NewProvider(i, av[i])] : av \in [1..n -> BOOLEAN]}
           : n \in 1..NumProviders}

RouterInit(sizes) ==
    \E cfg \in {None} \cup Names, nInit \in 0..NumProviders :
        /\ providers \in ProviderTables(nInit)
        /\ default_provider_name = InitDefault(cfg, nInit)
        /\ fallback_enabled = (nInit > 0)
        /\ max_size \in sizes
        /\ ttl = TtlTicks
        /\ cache = <<>>
        /\ access_order = <<>>
        /\ responses = <<>>
        /\ pc = "Idle"
        /\ request = NoRequest
        /\ provider = None
        /\ fallback = None
        /\ invoked = <<>>
        /\ result = None
        /\ error = NoError
        /\ before = providers
        /\ ncalls = 0
        /\ nupdates = 0
        /\ selection = NoSelection
        /\ lastop = NoOp
        /\ nops = 0
        /\ touch = <<>>
        /\ tasks = [t \in Tasks |-> NewTask]

\* ---- direct calls on the health tracker and the selection policy ----

UpdateStats(p, success, response_time) ==
    /\ nupdates < MaxUpdates
    /\ p \in DOMAIN providers
    /\ providers' = [providers EXCEPT
                        ![p] = update_stats(@, success, response_time)]
    /\ nupdates' = nupdates + 1
    /\ selection' = NoSelection
    /\ UNCHANGED cacheCallVars
    /\ UNCHANGED tasks
    /\ UNCHANGED <<routerVars, cacheVars, callVars>>

\* select_provider reads the router and changes nothing, so one call is
\* observed in each state of the providers' statistics
SelectProvider(preferred_provider) ==
    /\ ~selection.made
    /\ selection' = [made |-> TRUE, preferred |-> preferred_provider,
                     provider |-> select_provider(providers,
                                     default_provider_name, preferred_provider)]
    /\ UNCHANGED cacheCallVars
    /\ UNCHANGED tasks
    /\ UNCHANGED <<providers, nupdates, routerVars, cacheVars, callVars>>

InitSel == RouterInit({MaxCacheSize})

NextSel ==
    \/ \E p \in Names, s \in BOOLEAN, t \in Latencies : UpdateStats(p, s, t)
    \/ \E pref \in {None} \cup Names : SelectProvider(pref)

SpecSel == InitSel /\ [][NextSel]_vars

\* ---- LLMRouter.generate_response ----
\* The coroutine runs without interruption from one await to the next; the
\* awaits are the two adapter calls.  Each action below is one such stretch.

\* mutant: only the model of the first registered provider is probed
ProbeFirst(provs, i, c, ao, rs, prompt) ==
    IF Len(provs) = 0 THEN CacheOutcome(c, ao, rs, None, "")
    ELSE cache_get(c, ao, rs, generate_key(prompt, provs[1].model_name), ttl)

\* the cache probe: for provider_name, provider in self.providers.items():
\* cache.get(prompt, provider.model_name), returning at the first hit
RECURSIVE Probe(_, _, _, _, _, _)
Probe(provs, i, c, ao, rs, prompt) ==
    IF i > Len(provs) THEN CacheOutcome(c, ao, rs, None, "")
    ELSE LET o == cache_get(c, ao, rs,
                      generate_key(prompt, provs[i].model_name), ttl)
         IN  IF o.raised # "" \/ o.value # None THEN o
             ELSE Probe(provs, i + 1, o.cache, o.access_order, o.responses,
                        prompt)

\* an adapter call that has begun / that has returned or raised
Begun(p) ==
    [provider |-> p, success |-> FALSE, response |-> None, returned |-> FALSE]

Ended(p, success, response) ==
    [provider |-> p, success |-> success, response |-> response,
     returned |-> TRUE]

\* lines 926-939: cache probe, select_provider, call of the adapter.
\* Prompts are interchangeable, so the k-th call uses one of the first k.
Call(prompt, preferred_provider, use_cache) ==
    /\ pc = "Idle"
    /\ ncalls < MaxCalls
    /\ prompt <= ncalls + 1
    /\ ncalls' = ncalls + 1
    /\ request' = [prompt |-> prompt, preferred_provider |-> preferred_provider,
                   use_cache |-> use_cache]
    /\ before' = providers
    /\ fallback' = None
    /\ LET o == IF use_cache
                THEN Probe(providers, 1, cache, access_order, responses, prompt)
                ELSE CacheOutcome(cache, access_order, responses, None, "")
           chosen == select_provider(providers, default_provider_name,
                                     preferred_provider)
       IN  /\ cache' = o.cache
           /\ access_order' = o.access_order
           /\ responses' = o.responses
           /\ IF o.raised # ""
              THEN /\ error' = CacheError(o.raised)
                   /\ result' = None
                   /\ provider' = None
                   /\ invoked' = <<>>
                   /\ pc' = "Done"
              ELSE IF o.value # None
              THEN /\ error' = NoError
                   /\ result' = o.value
                   /\ provider' = None
                   /\ invoked' = <<>>
                   /\ pc' = "Done"
              ELSE IF chosen = None
              THEN /\ error' = NoProviderError
                   /\ result' = None
                   /\ provider' = None
                   /\ invoked' = <<>>
                   /\ pc' = "Done"
              ELSE /\ error' = NoError
                   /\ result' = None
                   /\ provider' = chosen
                   /\ invoked' = <<Begun(chosen)>>
                   /\ pc' = "Invoking"
    /\ UNCHANGED cacheCallVars
    /\ UNCHANGED tasks
    /\ UNCHANGED <<providers, routerVars, nupdates, selection>>

\* mutant: the fallback is the best-ranked other provider
ExceptRanked(e, calls) ==
    LET fallback_providers ==
            SortDesc(providers, AvailableFrom(providers, 1, provider))
    IN  IF fallback_enabled /\ fallback_providers # <<>>
        THEN /\ fallback' = fallback_providers[1]
             /\ pc' = "FallbackInvoking"
             /\ invoked' = Append(calls, Begun(fallback_providers[1]))
             /\ UNCHANGED <<result, error>>
        ELSE /\ error' = e
             /\ pc' = "Done"
             /\ invoked' = calls
             /\ UNCHANGED <<fallback, result>>

\* lines 947-962: the except branch, entered with exception e after the
\* adapter calls `calls`; it ends at the call of the fallback's adapter or
\* re-raises e
Except(e, calls) ==
    LET fallback_providers == AvailableFrom(providers, 1, provider)
    IN  IF fallback_enabled /\ fallback_providers # <<>>
        THEN /\ fallback' = fallback_providers[1]
             /\ pc' = "FallbackInvoking"
             /\ invoked' = Append(calls, Begun(fallback_providers[1]))
             /\ UNCHANGED <<result, error>>
        ELSE /\ error' = e
             /\ pc' = "Done"
             /\ invoked' = calls
             /\ UNCHANGED <<fallback, result>>

\* lines 939-962: the primary's adapter returns or raises.  Every adapter
\* builds its LLMResponse and calls update_stats(True, t), or calls
\* update_stats(False, t) and re-raises.  On return the response is stored
\* in the cache and returned; an exception, from the adapter or from
\* cache.set, enters the except branch.
PrimaryReturns(success, response_time) ==
    /\ pc = "Invoking"
    /\ LET id == NewId(responses)
           rs == IF success
                 THEN DictPut(responses, id,
                          NewResponse(request.prompt,
                              providers[provider].model_name, response_time))
                 ELSE responses
           calls == <<Ended(provider, success, IF success THEN id ELSE None)>>
           o == IF success /\ request.use_cache
                THEN cache_set(cache, access_order, rs,
                         generate_key(request.prompt,
                                      providers[provider].model_name),
                         id, max_size)
                ELSE CacheOutcome(cache, access_order, rs, None, "")
       IN  /\ providers' = [providers EXCEPT ![provider] =
                               update_stats(@, success, response_time)]
           /\ responses' = rs
           /\ cache' = o.cache
           /\ access_order' = o.access_order
           /\ IF ~success THEN Except(ProviderError(provider), calls)
              ELSE IF o.raised # "" THEN Except(CacheError(o.raised), calls)
              ELSE /\ result' = id
                   /\ pc' = "Done"
                   /\ invoked' = calls
                   /\ UNCHANGED <<fallback, error>>
    /\ UNCHANGED cacheCallVars
    /\ UNCHANGED tasks
    /\ UNCHANGED <<routerVars, request, provider, before, ncalls, nupdates,
                   selection>>

\* mutant: a failed fallback re-raises the primary's exception
fallback_error_original(primary, fb) == ProviderError(primary)

\* the exception that leaves `return await fallback.generate_response(...)`
\* when the fallback fb of the failed primary raises
fallback_error(primary, fb) == ProviderError(fb)

\* mutant: the response of the fallback is stored in the cache as well
FallbackReturnsStored(success, response_time) ==
    /\ pc = "FallbackInvoking"
    /\ LET id == NewId(responses)
           rs == IF success
                 THEN DictPut(responses, id,
                          NewResponse(request.prompt,
                              providers[fallback].model_name, response_time))
                 ELSE responses
           o == IF success /\ request.use_cache
                THEN cache_set(cache, access_order, rs,
                         generate_key(request.prompt,
                                      providers[fallback].model_name),
                         id, max_size)
                ELSE CacheOutcome(cache, access_order, rs, None, "")
       IN  /\ providers' = [providers EXCEPT ![fallback] =
                               update_stats(@, success, response_time)]
           /\ responses' = rs
           /\ cache' = o.cache
           /\ access_order' = o.access_order
           /\ invoked' = [invoked EXCEPT ![Len(invoked)] =
                             Ended(fallback, success,
                                   IF success THEN id ELSE None)]
           /\ result' = IF success THEN id ELSE None
           /\ error' = IF success THEN NoError
                       ELSE fallback_error(provider, fallback)
    /\ pc' = "Done"
    /\ UNCHANGED cacheCallVars
    /\ UNCHANGED tasks
    /\ UNCHANGED <<routerVars, request, provider, fallback, before, ncalls,
                   nupdates, selection>>

\* line 960: the fallback's adapter returns or raises, and so does the call
FallbackReturns(success, response_time) ==
    /\ pc = "FallbackInvoking"
    /\ LET id == NewId(responses)
       IN  /\ providers' = [providers EXCEPT ![fallback] =
                               update_stats(@, success, response_time)]
           /\ responses' = IF success
                           THEN DictPut(responses, id,
                                    NewResponse(request.prompt,
                                        providers[fallback].model_name,
                                        response_time))
                           ELSE responses
           /\ invoked' = [invoked EXCEPT ![Len(invoked)] =
                             Ended(fallback, success,
                                   IF success THEN id ELSE None)]
           /\ result' = IF success THEN id ELSE None
           /\ error' = IF success THEN NoError
                       ELSE fallback_error(provider, fallback)
    /\ pc' = "Done"
    /\ UNCHANGED cacheCallVars
    /\ UNCHANGED tasks
    /\ UNCHANGED <<routerVars, cache, access_order, request, provider,
                   fallback, before, ncalls, nupdates, selection>>

\* the caller takes the result or the exception; objects that the cache
\* does not reference leave the model
Return ==
    /\ pc = "Done"
    /\ pc' = "Idle"
    /\ request' = NoRequest
    /\ provider' = None
    /\ fallback' = None
    /\ invoked' = <<>>
    /\ result' = None
    /\ error' = NoError
    /\ before' = providers
    /\ responses' = Referenced(responses, cache)
    /\ UNCHANGED cacheCallVars
    /\ UNCHANGED tasks
    /\ UNCHANGED <<providers, routerVars, cache, access_order, ncalls,
                   nupdates, selection>>

\* the clock advances by one tick, between calls or while the primary's
\* adapter is working (nothing reads the clock once the fallback is called)
Tick ==
    /\ pc \in {"Idle", "Invoking"}
    /\ cache' = [k \in DOMAIN cache |->
                    [cache[k] EXCEPT !.age = IF @ < ttl THEN @ + 1 ELSE @]]
    /\ lastop' = NoOp
    /\ UNCHANGED tasks
    /\ UNCHANGED <<providers, routerVars, access_order, responses, callVars,
                   nupdates, selection, nops, touch>>

Init == RouterInit(0..MaxCacheSize)

Next ==
    \/ \E prompt \in Prompts, pref \in {None} \cup Names, uc \in BOOLEAN :
          Call(prompt, pref, uc)
    \/ \E s \in BOOLEAN, t \in AdapterLatencies : PrimaryReturns(s, t)
    \/ \E s \in BOOLEAN, t \in AdapterLatencies : FallbackReturns(s, t)
    \/ Return
    \/ Tick

Spec == Init /\ [][Next]_vars

\* ---- the router as _initialize_providers leaves it ----

\* one or more adapters initialised, each of them available and registered,
\* and no llm.preferred_provider configured
InitBuilt ==
    /\ RouterInit(0..MaxCacheSize)
    /\ Len(providers) >= 1
    /\ \A p \in DOMAIN providers : providers[p].is_available
    /\ fallback_enabled
    /\ default_provider_name = InitDefault(None, Len(providers))

SpecBuilt == InitBuilt /\ [][Next]_vars

\* ---- concurrent generate_response calls ----
\* The calls are coroutines on one event loop: a call runs without
\* interruption up to an await, and the awaits are the adapter calls; so
\* the steps of a task are those of Call, PrimaryReturns and
\* FallbackReturns, and steps of different tasks interleave.

\* the calls that have begun and have not ended
InFlight == {t \in Tasks : tasks[t].pc \in {"Invoking", "FallbackInvoking"}}

\* the response objects held by the callers
Held(ts) == {ts[t].result : t \in Tasks} \ {None}

\* mutant: the adapter's increment is a read and a later write with no
\* lock; while another call is in flight the write is lost to that call's
AdapterRecordsRacy(t, p, success, response_time) ==
    IF InFlight \ {t} # {}
    THEN providers
    ELSE [providers EXCEPT ![p] = update_stats(@, success, response_time)]

\* the provider table after the adapter of p, called by task t, has called
\* update_stats before it returns or re-raises
AdapterRecords(t, p, success, response_time) ==
    [providers EXCEPT ![p] = update_stats(@, success, response_time)]

\* the task record at the end of the call, with result id (None = 0), read
\* in the heap rs, or with the exception e
Finished(task, id, rs, e) ==
    [task EXCEPT !.pc = "Done", !.result = id, !.error = e,
                 !.cached = IF id = None THEN FALSE ELSE rs[id].cached,
                 !.content = IF id = None THEN None ELSE rs[id].content]

\* lines 947-962 for a task: the call of the fallback's adapter, or the
\* re-raise of e
TaskExcept(task, e, rs) ==
    LET fallback_providers == AvailableFrom(providers, 1, task.provider)
    IN  IF fallback_enabled /\ fallback_providers # <<>>
        THEN [task EXCEPT !.pc = "FallbackInvoking",
                          !.fallback = fallback_providers[1],
                          !.invoked = Append(@, Begun(fallback_providers[1]))]
        ELSE Finished(task, None, rs, e)

\* lines 926-939 for task t; tasks are started in the order of their names
TaskCall(t, prompt, preferred_provider, use_cache) ==
    /\ tasks[t].pc = "New"
    /\ \A u \in Tasks : u < t => tasks[u].pc # "New"
    /\ prompt <= t
    /\ LET o == IF use_cache
                THEN Probe(providers, 1, cache, access_order, responses, prompt)
                ELSE CacheOutcome(cache, access_order, responses, None, "")
           chosen == select_provider(providers, default_provider_name,
                                     preferred_provider)
           task == [tasks[t] EXCEPT !.prompt = prompt,
                       !.preferred_provider = preferred_provider,
                       !.use_cache = use_cache, !.peers = InFlight]
       IN  /\ cache' = o.cache
           /\ access_order' = o.access_order
           /\ responses' = o.responses
           /\ tasks' = [tasks EXCEPT ![t] =
                 IF o.raised # ""
                 THEN Finished(task, None, o.responses, CacheError(o.raised))
                 ELSE IF o.value # None
                 THEN Finished(task, o.value, o.responses, NoError)
                 ELSE IF chosen = None
                 THEN Finished(task, None, o.responses, NoProviderError)
                 ELSE [task EXCEPT !.pc = "Invoking", !.provider = chosen,
                                   !.invoked = <<Begun(chosen)>>]]
    /\ UNCHANGED <<providers, routerVars, callVars, nupdates, selection,
                   cacheCallVars>>

\* lines 939-962 for task t: its primary's adapter returns or raises
TaskPrimaryReturns(t, success, response_time) ==
    /\ tasks[t].pc = "Invoking"
    /\ LET task == tasks[t]
           id == NewId(responses)
           rs == IF success
                 THEN DictPut(responses, id,
                          NewResponse(task.prompt,
                              providers[task.provider].model_name,
                              response_time))
                 ELSE responses
           o == IF success /\ task.use_cache
                THEN cache_set(cache, access_order, rs,
                         generate_key(task.prompt,
                                      providers[task.provider].model_name),
                         id, max_size)
                ELSE CacheOutcome(cache, access_order, rs, None, "")
           ret == [task EXCEPT
                      !.invoked = <<Ended(task.provider, success,
                                          IF success THEN id ELSE None)>>]
           nxt == IF ~success
                  THEN TaskExcept(ret, ProviderError(task.provider), rs)
                  ELSE IF o.raised # ""
                  THEN TaskExcept(ret, CacheError(o.raised), rs)
                  ELSE Finished(ret, id, rs, NoError)
       IN  /\ providers' = AdapterRecords(t, task.provider, success,
                                          response_time)
           /\ cache' = o.cache
           /\ access_order' = o.access_order
           /\ tasks' = [tasks EXCEPT ![t] = nxt]
           /\ responses' = Live(rs, o.cache, Held(tasks'))
    /\ UNCHANGED <<routerVars, callVars, nupdates, selection, cacheCallVars>>

\* line 960 for task t: its fallback's adapter returns or raises
TaskFallbackReturns(t, success, response_time) ==
    /\ tasks[t].pc = "FallbackInvoking"
    /\ LET task == tasks[t]
           id == NewId(responses)
           rs == IF success
                 THEN DictPut(responses, id,
                          NewResponse(task.prompt,
                              providers[task.fallback].model_name,
                              response_time))
                 ELSE responses
           ret == [task EXCEPT
                      !.invoked[Len(task.invoked)] =
                          Ended(task.fallback, success,
                                IF success THEN id ELSE None)]
       IN  /\ providers' = AdapterRecords(t, task.fallback, success,
                                          response_time)
           /\ tasks' = [tasks EXCEPT ![t] =
                 IF success THEN Finished(ret, id, rs, NoError)
                 ELSE Finished(ret, None, rs,
                          fallback_error(task.provider, task.fallback))]
           /\ responses' = Live(rs, cache, Held(tasks'))
    /\ UNCHANGED <<routerVars, cache, access_order, callVars, nupdates,
                   selection, cacheCallVars>>

\* the router as _initialize_providers leaves it when no default is
\* configured, with any cache size
InitConc ==
    /\ RouterInit(0..MaxCacheSize)
    /\ Len(providers) >= 1
    /\ \A p \in DOMAIN providers : providers[p].is_available
    /\ fallback_enabled
    /\ default_provider_name = InitDefault(None, Len(providers))

\* the callers name no provider; each may bring a prompt of its own
NextConc ==
    \/ \E t \in Tasks, prompt \in Tasks, uc \in BOOLEAN :
          TaskCall(t, prompt, None, uc)
    \/ \E t \in Tasks, s \in BOOLEAN, r \in AdapterLatencies :
          TaskPrimaryReturns(t, s, r)
    \/ \E t \in Tasks, s \in BOOLEAN, r \in AdapterLatencies :
          TaskFallbackReturns(t, s, r)
    \/ Tick

SpecConc == InitConc /\ [][NextConc]_vars

\* ---- direct calls on an LLMCache ----

\* the record of a direct call: its key, the response passed to set (arg),
\* the response returned by get (value), the exception raised, and what the
\* cache held for the key when the call was made
OpRecord(op, key, arg, o) ==
    [op |-> op, key |-> key, arg |-> arg, value |-> o.value,
     raised |-> o.raised, had |-> key \in DOMAIN cache,
     age |-> IF key \in DOMAIN cache THEN cache[key].age ELSE 0,
     size |-> Cardinality(DOMAIN cache), prev |-> <<lastop.op, lastop.key>>]

\* cache.get(prompt, model)
CacheGet(prompt, model) ==
    /\ nops < MaxOps
    /\ LET key == generate_key(prompt, model)
           o == cache_get(cache, access_order, responses, key, ttl)
       IN  /\ cache' = o.cache
           /\ access_order' = o.access_order
           /\ responses' = Live(o.responses, o.cache, {o.value})
           /\ lastop' = OpRecord("get", key, None, o)
           /\ touch' = IF o.value # None THEN DictPut(touch, key, nops + 1)
                       ELSE touch
    /\ nops' = nops + 1
    /\ UNCHANGED tasks
    /\ UNCHANGED <<providers, routerVars, callVars, nupdates, selection>>

\* cache.set(prompt, model, LLMResponse(...)) with a newly built response;
\* the n-th direct call carries the content n
CacheSet(prompt, model) ==
    /\ nops < MaxOps
    /\ LET key == generate_key(prompt, model)
           id == NewId(responses)
           rs == DictPut(responses, id, NewResponse(nops + 1, model, 1))
           o == cache_set(cache, access_order, rs, key, id, max_size)
       IN  /\ cache' = o.cache
           /\ access_order' = o.access_order
           /\ responses' = Live(o.responses, o.cache, {id})
           /\ lastop' = OpRecord("set", key, id, o)
           /\ touch' = IF o.raised = "" /\ key \notin DOMAIN cache
                       THEN DictPut(touch, key, nops + 1)
                       ELSE touch
    /\ nops' = nops + 1
    /\ UNCHANGED tasks
    /\ UNCHANGED <<providers, routerVars, callVars, nupdates, selection>>

\* cache.clear()
CacheClear ==
    /\ nops < MaxOps
    /\ LET o == cache_clear(cache, access_order, responses)
       IN  /\ cache' = o.cache
           /\ access_order' = o.access_order
           /\ responses' = Live(o.responses, o.cache, {})
           /\ lastop' = OpRecord("clear", NoKey, None, o)
    /\ nops' = nops + 1
    /\ UNCHANGED tasks
    /\ UNCHANGED <<providers, routerVars, callVars, nupdates, selection,
                   touch>>

\* an LLMCache of any max_size in 0..MaxSize, in a router without providers
InitCache ==
    /\ RouterInit(0..MaxSize)
    /\ providers = <<>>
    /\ default_provider_name = None

CachePrompts == 1..NumKeys

NextCache ==
    \/ \E prompt \in CachePrompts : CacheGet(prompt, 1)
    \/ \E prompt \in CachePrompts : CacheSet(prompt, 1)
    \/ CacheClear
    \/ Tick

SpecCache == InitCache /\ [][NextCache]_vars

\* ======================= properties =======================

MinOf(S) == CHOOSE x \in S : \A y \in S : x <= y

Registered == DOMAIN providers

Usable(name) ==
    name # None /\ name \in Registered /\ providers[name].is_available

\* registered providers under whose model the cache holds an unexpired
\* entry for the prompt
FreshFor(prompt) ==
    {p \in Registered :
        LET k == generate_key(prompt, providers[p].model_name)
        IN  k \in DOMAIN cache /\ cache[k].age < ttl}

\* adapter invocations of the current call on p that have returned or raised
ReturnedOn(p) ==
    {i \in 1..Len(invoked) : invoked[i].provider = p /\ invoked[i].returned}

FailedOn(p) == {i \in ReturnedOn(p) : ~invoked[i].success}

\* C1: with use_cache, when the cache holds an unexpired entry for the
\* prompt under the model of a registered provider, the call ends at the
\* lookup: it returns that entry (the first in registration order) with
\* cached = true, raises nothing, invokes no adapter and leaves every
\* provider's counters as they were when the call began.
C1_CacheHitReturnsEntry ==
    [][(pc = "Idle" /\ pc' # "Idle" /\ request'.use_cache
            /\ FreshFor(request'.prompt) # {})
        => LET first == MinOf(FreshFor(request'.prompt))
               k == generate_key(request'.prompt, providers[first].model_name)
           IN  /\ pc' = "Done"
               /\ result' = cache[k].response
               /\ responses'[result'].cached
               /\ error' = NoError
               /\ invoked' = <<>>
               /\ providers' = providers
               /\ providers' = before']_vars

C1_Witness ==
    /\ pc = "Done"
    /\ request.use_cache
    /\ result # None
    /\ invoked = <<>>
    /\ responses[result].cached
    /\ \E p \in Registered : providers[p].request_count > 0

\* C2: when the primary's invocation failed and fallback is enabled, the
\* provider invoked as fallback is the first one in registration order that
\* is available and is not the primary, whatever the statistics, the
\* preferred name and the default.
C2_FallbackIsFirstOtherAvailable ==
    [][(pc = "Invoking" /\ pc' # "Invoking" /\ ~invoked'[1].success
            /\ fallback_enabled
            /\ \E q \in Registered : providers[q].is_available /\ q # provider)
        => LET first == MinOf({q \in Registered :
                                  providers[q].is_available /\ q # provider})
           IN  /\ pc' = "FallbackInvoking"
               /\ fallback' = first
               /\ Len(invoked') = 2
               /\ invoked'[2].provider = first]_vars

\* the fallback is neither the default nor the preferred provider, and
\* another candidate has a strictly better success rate
C2_Witness ==
    /\ pc = "FallbackInvoking"
    /\ ~invoked[1].success
    /\ fallback # default_provider_name
    /\ fallback # request.preferred_provider
    /\ \E q \in Registered :
          /\ providers[q].is_available /\ q # provider /\ q # fallback
          /\ (providers[q].request_count - providers[q].error_count)
                 * Max(1, providers[fallback].request_count)
             > (providers[fallback].request_count
                    - providers[fallback].error_count)
                 * Max(1, providers[q].request_count)

\* C3: a call makes at most two adapter invocations, the first on the
\* selected primary; a second one is made only after the primary has
\* failed, on a different provider, and nothing follows it.
C3_AtMostTwoInvocations ==
    /\ Len(invoked) <= 2
    /\ Len(invoked) >= 1 => invoked[1].provider = provider
    /\ Len(invoked) = 2 =>
          /\ invoked[1].returned
          /\ ~invoked[1].success
          /\ invoked[2].provider = fallback
          /\ invoked[2].provider # invoked[1].provider

\* C4: at the end of a call, a failed fallback surfaces the fallback's
\* error; a failed primary with no fallback attempt surfaces the primary's
\* error; no result is returned when every attempt failed.
C4_SurfacedError ==
    pc = "Done" =>
        /\ (Len(invoked) = 2 /\ ~invoked[2].success)
              => (error = ProviderError(fallback) /\ result = None)
        /\ (Len(invoked) = 1 /\ ~invoked[1].success)
              => (error = ProviderError(provider) /\ result = None)
        /\ (result # None) => (error = NoError)

C4_Witness ==
    /\ pc = "Done"
    /\ Len(invoked) = 2
    /\ ~invoked[1].success
    /\ ~invoked[2].success
    /\ error = ProviderError(fallback)

\* C5: every adapter invocation of the call that has returned or raised
\* has added exactly 1 to that provider's request_count and exactly 1 to
\* its error_count iff it raised, and no other counter has moved; with a
\* single registered, available provider whose invocation raises, the call
\* ends with that error and error_count one higher.
C5_CountersFollowInvocations ==
    /\ \A p \in Registered :
          /\ providers[p].request_count
                = before[p].request_count + Cardinality(ReturnedOn(p))
          /\ providers[p].error_count
                = before[p].error_count + Cardinality(FailedOn(p))
          /\ providers[p].is_available = before[p].is_available
    /\ (pc = "Done" /\ Len(providers) = 1 /\ Len(invoked) = 1
            /\ ~invoked[1].success)
          => /\ error = ProviderError(1)
             /\ result = None
             /\ providers[1].error_count = before[1].error_count + 1

C5_Witness ==
    /\ pc = "Done"
    /\ Len(providers) = 1
    /\ fallback_enabled
    /\ Len(invoked) = 1
    /\ ~invoked[1].success
    /\ error = ProviderError(1)
    /\ providers[1].error_count = before[1].error_count + 1

\* successes of p, and comparisons of success rate and of average
\* successful latency by cross-multiplication
Successes(p) == providers[p].request_count - providers[p].error_count

RateNum(p, q) == Successes(p) * Max(1, providers[q].request_count)

AvgNum(p, q) == providers[p].total_response_time * Max(1, Successes(q))

\* q ranks strictly before s: higher success rate, then lower average
\* latency, then earlier registration
RanksBefore(q, s) ==
    \/ RateNum(q, s) > RateNum(s, q)
    \/ /\ RateNum(q, s) = RateNum(s, q)
       /\ \/ AvgNum(q, s) < AvgNum(s, q)
          \/ AvgNum(q, s) = AvgNum(s, q) /\ q < s

\* C6: for every provider error_count <= request_count, and no step
\* decreases request_count or error_count.
C6_ErrorsWithinRequests ==
    /\ [](\A p \in Registered :
             providers[p].error_count <= providers[p].request_count)
    /\ [][\A p \in Registered :
             /\ providers'[p].request_count >= providers[p].request_count
             /\ providers'[p].error_count >= providers[p].error_count]_vars

C6_Witness ==
    \E p \in Registered :
        /\ providers[p].request_count = MaxUpdates
        /\ providers[p].error_count >= 1
        /\ providers[p].error_count < providers[p].request_count

\* C7: select_provider called with a preferred name that is registered and
\* available returns that provider, whatever the statistics and the default.
C7_PreferredWins ==
    (selection.made /\ Usable(selection.preferred))
        => selection.provider = selection.preferred

\* the preferred provider has a 0% success rate, another available
\* provider has succeeded, and a different usable default is configured
C7_Witness ==
    /\ selection.made
    /\ Usable(selection.preferred)
    /\ selection.provider = selection.preferred
    /\ providers[selection.preferred].request_count > 0
    /\ Successes(selection.preferred) = 0
    /\ Usable(default_provider_name)
    /\ default_provider_name # selection.preferred
    /\ \E q \in Registered : providers[q].is_available /\ Successes(q) > 0

\* C8: select_provider never returns an unavailable provider, for any
\* preferred name, and generate_response never invokes one, as primary or
\* as fallback.
C8_UnavailableNeverUsed ==
    /\ \A pref \in {None} \cup Names :
          LET s == select_provider(providers, default_provider_name, pref)
          IN  s # None => (s \in Registered /\ providers[s].is_available)
    /\ provider # None => providers[provider].is_available
    /\ fallback # None => providers[fallback].is_available
    /\ \A i \in 1..Len(invoked) : providers[invoked[i].provider].is_available

\* an unavailable provider was the preferred one, and another one was
\* passed over on the fallback path
C8_Witness ==
    /\ pc = "FallbackInvoking"
    /\ request.preferred_provider \in Registered
    /\ ~providers[request.preferred_provider].is_available
    /\ \E u \in Registered :
          u < fallback /\ u # provider /\ ~providers[u].is_available

\* C9: when the preferred name is absent, unregistered or unavailable,
\* select_provider returns the default provider if that is registered and
\* available; with neither usable and a single available provider it
\* returns that provider.
C9_DefaultBeforeRanking ==
    (selection.made /\ ~Usable(selection.preferred)) =>
        /\ Usable(default_provider_name)
              => selection.provider = default_provider_name
        /\ \A a \in Registered :
              (/\ ~Usable(default_provider_name)
               /\ \A q \in Registered : providers[q].is_available <=> q = a)
              => selection.provider = a

\* the preferred provider is registered but unavailable, and the default
\* returned is ranked behind another available provider
C9_Witness ==
    /\ selection.made
    /\ selection.preferred \in Registered
    /\ ~providers[selection.preferred].is_available
    /\ Usable(default_provider_name)
    /\ selection.provider = default_provider_name
    /\ \E q \in Registered :
          providers[q].is_available /\ RanksBefore(q, default_provider_name)
             /\ RateNum(q, default_provider_name)
                    > RateNum(default_provider_name, q)

\* Scenario E of C9: preferred registered and unavailable, no default, one
\* available provider, which is returned
C9_ScenarioE ==
    /\ selection.made
    /\ selection.preferred \in Registered
    /\ ~providers[selection.preferred].is_available
    /\ default_provider_name = None
    /\ \E a \in Registered :
          /\ \A q \in Registered : providers[q].is_available <=> q = a
          /\ selection.provider = a

\* C10: when neither the preferred nor the default step yields a provider,
\* select_provider returns an available provider that no other available
\* provider ranks before (success rate descending, then average successful
\* latency ascending, then registration order); it raises only when no
\* provider is available.
C10_RankingOrder ==
    (selection.made /\ ~Usable(selection.preferred)
        /\ ~Usable(default_provider_name)) =>
        IF \E q \in Registered : providers[q].is_available
        THEN /\ Usable(selection.provider)
             /\ \A q \in Registered :
                   providers[q].is_available
                      => ~RanksBefore(q, selection.provider)
        ELSE selection.provider = None

\* the provider returned has a strictly higher success rate and a strictly
\* higher average latency than another available provider registered first
C10_Witness ==
    /\ selection.made
    /\ ~Usable(selection.preferred)
    /\ ~Usable(default_provider_name)
    /\ Usable(selection.provider)
    /\ \E q \in Registered :
          /\ providers[q].is_available
          /\ q < selection.provider
          /\ RateNum(selection.provider, q) > RateNum(q, selection.provider)
          /\ AvgNum(selection.provider, q) > AvgNum(q, selection.provider)
          /\ Successes(q) > 0

\* C11: with no usable preferred name and no usable default, when exactly
\* two providers are available, A with no prior request and B with one or
\* more prior requests that all failed, select_provider returns A,
\* whichever of the two was registered first.
C11_FreshBeatsFailing ==
    \A a, b \in Registered :
        (/\ selection.made
         /\ ~Usable(selection.preferred)
         /\ ~Usable(default_provider_name)
         /\ a # b
         /\ \A q \in Registered : providers[q].is_available <=> q \in {a, b}
         /\ providers[a].request_count = 0
         /\ providers[b].request_count >= 1
         /\ providers[b].error_count = providers[b].request_count)
        => selection.provider = a

\* C12: when the cache lookup does not hit and no registered provider is
\* available, the call ends at once with the no-provider-available error:
\* no result, no adapter invoked, no fallback chosen, every provider's
\* counters as they were, and no key added to the cache or changed in it.
C12_NoProviderFailsCleanly ==
    [][(/\ pc = "Idle" /\ pc' # "Idle"
        /\ ~(request'.use_cache /\ FreshFor(request'.prompt) # {})
        /\ \A q \in Registered : ~providers[q].is_available)
       => /\ pc' = "Done"
          /\ error' = NoProviderError
          /\ result' = None
          /\ invoked' = <<>>
          /\ provider' = None
          /\ fallback' = None
          /\ providers' = providers
          /\ DOMAIN cache' \subseteq DOMAIN cache
          /\ \A k \in DOMAIN cache' : cache'[k] = cache[k]]_vars

\* fallback is enabled and providers are registered, none available
C12_Witness ==
    /\ pc = "Done"
    /\ error = NoProviderError
    /\ request.use_cache
    /\ fallback_enabled
    /\ Len(providers) >= 2
    /\ invoked = <<>>

\* the keys of the recency list
Keys(list) == {list[i] : i \in 1..Len(list)}

\* the step is a direct LLMCache call of the given kind
Calls(op) == nops' = nops + 1 /\ lastop'.op = op

\* C13: in every state reached by get, set and clear calls (gets that
\* expire entries and sets that evict included), access_order and cache
\* hold exactly the same keys and access_order holds no key twice; after
\* clear both are empty.
C13_Lockstep ==
    /\ Keys(access_order) = DOMAIN cache
    /\ Len(access_order) = Cardinality(DOMAIN cache)
    /\ lastop.op = "clear" => (DOMAIN cache = {} /\ access_order = <<>>)

\* a full cache that had evicted a key has been cleared
C13_Witness ==
    /\ lastop.op = "clear"
    /\ max_size >= 2
    /\ lastop.size = max_size
    /\ Cardinality(DOMAIN touch) > max_size
    /\ DOMAIN cache = {}
    /\ access_order = <<>>

C15_ResponsesImmutable ==
    [][\A i \in DOMAIN responses :
          i \in DOMAIN responses' => responses'[i] = responses[i]]_vars

\* C16: get returns the stored response only while the entry's age is
\* below the ttl; at age = ttl or more it returns nothing and removes the
\* key from cache and from access_order in that same call; a get for an
\* absent key returns nothing and leaves the cache as it is, and only a set
\* of the key makes it present again.
C16_ExpiryOnGet ==
    /\ [][Calls("get") =>
            LET k == lastop'.key
            IN  IF k \in DOMAIN cache /\ cache[k].age < ttl
                THEN /\ lastop'.value = cache[k].response
                     /\ k \in DOMAIN cache'
                ELSE /\ lastop'.value = None
                     /\ lastop'.raised = ""
                     /\ k \notin DOMAIN cache'
                     /\ k \notin Keys(access_order')
                     /\ DOMAIN cache' = DOMAIN cache \ {k}]_vars
    /\ [][\A k \in DOMAIN cache' \ DOMAIN cache :
            Calls("set") /\ lastop'.key = k]_vars

\* a get found the entry at age = ttl, with another entry left in the cache
C16_Witness ==
    /\ lastop.op = "get"
    /\ lastop.had
    /\ lastop.age = ttl
    /\ lastop.value = None
    /\ lastop.key \notin DOMAIN cache
    /\ lastop.key \notin Keys(access_order)
    /\ DOMAIN cache # {}

\* the stored key that has gone longest without being inserted or hit
LeastRecentlyTouched ==
    CHOOSE k \in DOMAIN cache : \A j \in DOMAIN cache : touch[k] <= touch[j]

\* C17: with max_size >= 1, a set of a new key into a cache that holds
\* max_size entries evicts exactly one key, the stored key least recently
\* touched by its insertion or by a get hit, and keeps every other entry
\* as it was; the new key is stored.
C17_EvictsLeastRecentlyTouched ==
    [][(/\ Calls("set")
        /\ max_size >= 1
        /\ lastop'.key \notin DOMAIN cache
        /\ Cardinality(DOMAIN cache) = max_size)
       => /\ lastop'.raised = ""
          /\ DOMAIN cache'
                = (DOMAIN cache \ {LeastRecentlyTouched}) \cup {lastop'.key}
          /\ LeastRecentlyTouched # lastop'.key
          /\ \A j \in DOMAIN cache \ {LeastRecentlyTouched} :
                cache'[j] = cache[j]]_vars

\* K(n): the key of prompt n
K(n) == generate_key(n, 1)

\* max_size = 2: set k1, set k2, a get hit on k1, set k3; k2 is evicted
\* and k1 and k3 are kept
C17_Witness ==
    /\ max_size = 2
    /\ nops = 4
    /\ lastop.op = "set"
    /\ lastop.key = K(3)
    /\ DOMAIN touch = {K(1), K(2), K(3)}
    /\ touch[K(2)] = 2
    /\ touch[K(1)] = 3
    /\ DOMAIN cache = {K(1), K(3)}

\* Scenario C of C17: max_size = 2 and sets of k1, k2, k3 evict k1 and
\* keep k2 and k3
C17_ScenarioC ==
    /\ max_size = 2
    /\ nops = 3
    /\ lastop.op = "set"
    /\ touch = (K(1) :> 1) @@ (K(2) :> 2) @@ (K(3) :> 3)
    /\ DOMAIN cache = {K(2), K(3)}

\* C18: a set on a key that is present overwrites the value in place,
\* evicts nothing, leaves the size unchanged and makes the key the most
\* recently used one: the last in the order of eviction.
C18_OverwriteRefreshesRecency ==
    [][(Calls("set") /\ lastop'.key \in DOMAIN cache)
       => /\ lastop'.raised = ""
          /\ DOMAIN cache' = DOMAIN cache
          /\ cache'[lastop'.key].response = lastop'.arg
          /\ \A j \in DOMAIN cache \ {lastop'.key} : cache'[j] = cache[j]
          /\ access_order'[Len(access_order')] = lastop'.key]_vars

\* C19: the cache never holds more than max_size entries, and a set of a
\* new key into a cache that holds max_size entries removes exactly one
\* entry.
C19_SizeBounded ==
    /\ [](Cardinality(DOMAIN cache) <= max_size)
    /\ [][(/\ Calls("set")
            /\ lastop'.key \notin DOMAIN cache
            /\ Cardinality(DOMAIN cache) = max_size)
           => /\ Cardinality(DOMAIN cache \ DOMAIN cache') = 1
              /\ Cardinality(DOMAIN cache') = max_size]_vars

\* C20: no get, set or clear raises, for any max_size >= 0, on an empty,
\* full or stale cache; absence and expiry give an empty result.
C20_NoCacheOpRaises ==
    /\ lastop.raised = ""
    /\ (lastop.op = "get" /\ (~lastop.had \/ lastop.age >= ttl))
          => lastop.value = None

C30_AgeSinceLastSet ==
    /\ [][(Calls("get") /\ lastop'.value # None)
           => LET k == lastop'.key
              IN  /\ cache'[k] = cache[k]
                  /\ access_order'[Len(access_order')] = k]_vars
    /\ [][(Calls("set") /\ lastop'.key \in DOMAIN cache)
           => cache'[lastop'.key].age = 0]_vars

\* a hit on an entry one tick old that was not the most recent key; the
\* entry is still one tick old
C30_Witness ==
    /\ lastop.op = "get"
    /\ lastop.value # None
    /\ lastop.age = 1
    /\ cache[lastop.key].age = 1
    /\ Len(access_order) = 2
    /\ access_order[2] = lastop.key
    /\ touch[access_order[1]] > 1

\* a set on a present key whose entry was one tick old
C30_WitnessOverwrite ==
    /\ lastop.op = "set"
    /\ lastop.had
    /\ lastop.age = 1
    /\ cache[lastop.key].age = 0

\* C22: the lookup returns the entry found under a registered provider's
\* model whatever provider the request would select: with a fresh entry
\* under A's model and a preferred provider B # A that is registered and
\* available, the call returns A's entry and invokes nothing.
C22_HitIgnoresSelection ==
    [][(/\ pc = "Idle" /\ pc' # "Idle"
        /\ request'.use_cache
        /\ FreshFor(request'.prompt) # {}
        /\ Usable(request'.preferred_provider)
        /\ request'.preferred_provider \notin FreshFor(request'.prompt))
       => /\ pc' = "Done"
          /\ result' # None
          /\ responses'[result'].model = MinOf(FreshFor(request'.prompt))
          /\ responses'[result'].model # request'.preferred_provider
          /\ provider' = None
          /\ invoked' = <<>>
          /\ providers'[request'.preferred_provider]
                = providers[request'.preferred_provider]]_vars

\* the entry is under the model of the second registered provider and the
\* preferred provider is the first
C22_Witness ==
    /\ pc = "Done"
    /\ request.use_cache
    /\ result # None
    /\ invoked = <<>>
    /\ request.preferred_provider = 1
    /\ Usable(1)
    /\ responses[result].model = 2
    /\ responses[result].cached

\* C27: a call moves through its states only forward: from the start
\* (cache lookup and selection) to Invoking or Done, from Invoking to
\* FallbackInvoking or Done, from FallbackInvoking to Done; it enters
\* FallbackInvoking only after the primary's invocation failed, and it is
\* Done with either a result or an error.
C27_StateOrder ==
    [][/\ pc = "Idle" => pc' \in {"Idle", "Invoking", "Done"}
       /\ pc = "Invoking" => pc' \in {"Invoking", "FallbackInvoking", "Done"}
       /\ pc = "FallbackInvoking" => pc' \in {"FallbackInvoking", "Done"}
       /\ pc = "Done" => pc' \in {"Done", "Idle"}
       /\ (pc' = "FallbackInvoking" /\ pc # "FallbackInvoking")
             => (invoked'[1].returned /\ ~invoked'[1].success)
       /\ pc' = "Done" => ((result' # None) # (error' # NoError))]_vars

\* registered providers under whose model the cache holds an entry, fresh
\* or stale, for the prompt
StoredFor(prompt) ==
    {p \in Registered :
        generate_key(prompt, providers[p].model_name) \in DOMAIN cache}

\* C28: a failed primary invocation stores nothing and the response of
\* the fallback is returned without being stored: the steps after the
\* primary's failure leave cache and access_order as they are; a call with
\* use_cache whose primary failed ends with no entry for its prompt in the
\* cache, the cache stays so when the call returns, and a call with
\* use_cache that finds no entry for its prompt invokes a provider.
C28_FailurePathStoresNothing ==
    /\ [][(pc = "Invoking" /\ pc' # "Invoking" /\ ~invoked'[1].success)
           => (cache' = cache /\ access_order' = access_order)]_vars
    /\ [][(pc = "FallbackInvoking" /\ pc' = "Done")
           => /\ cache' = cache
              /\ access_order' = access_order
              /\ \A k \in DOMAIN cache' : cache'[k].response # result']_vars
    /\ []((pc = "Done" /\ Len(invoked) >= 1 /\ ~invoked[1].success
               /\ request.use_cache)
           => StoredFor(request.prompt) = {})
    /\ [][(pc = "Done" /\ pc' = "Idle")
           => (cache' = cache /\ access_order' = access_order)]_vars
    /\ [][(/\ pc = "Idle" /\ pc' # "Idle"
            /\ request'.use_cache
            /\ StoredFor(request'.prompt) = {}
            /\ \E q \in Registered : providers[q].is_available)
           => (pc' = "Invoking" /\ Len(invoked') = 1)]_vars

\* the second of two calls whose primary failed and whose fallback
\* answered: both providers were invoked twice and the cache is empty
C28_Witness ==
    /\ pc = "Done"
    /\ ncalls = 2
    /\ max_size >= 1
    /\ request.use_cache
    /\ Len(invoked) = 2
    /\ ~invoked[1].success
    /\ invoked[2].success
    /\ result # None
    /\ providers[provider].error_count = 2
    /\ providers[fallback].request_count = 2
    /\ DOMAIN cache = {}

\* C29: in a router built with one or more registered providers and no
\* configured default, default_provider_name is the first registered
\* provider, which is available; select_provider with any preferred name
\* that is not usable, and every generate_response call without a usable
\* preferred provider, selects that provider, whatever the statistics: the
\* default step always returns and the ranking is not reached.
C29_DefaultPinned ==
    /\ default_provider_name = 1
    /\ Usable(default_provider_name)
    /\ \A pref \in {None} \cup Names :
          ~Usable(pref)
             => select_provider(providers, default_provider_name, pref) = 1
    /\ (Len(invoked) >= 1 /\ ~Usable(request.preferred_provider))
          => (provider = 1 /\ invoked[1].provider = 1)

\* the first provider is selected again although all its requests failed
\* and the second provider has succeeded
C29_Witness ==
    /\ ncalls = 2
    /\ pc = "Invoking"
    /\ request.preferred_provider = None
    /\ invoked[1].provider = 1
    /\ Len(providers) >= 2
    /\ providers[1].request_count > 0
    /\ Successes(1) = 0
    /\ Successes(2) > 0

\* ---- concurrent and repeated calls ----

\* the time since the entry for the prompt under the model of provider p
\* was stored is below the ttl, if there is such an entry
WithinTtl(prompt, p) ==
    LET k == generate_key(prompt, providers[p].model_name)
    IN  k \in DOMAIN cache => cache[k].age < ttl

\* C21: with one available provider and an empty cache, of two identical
\* calls with use_cache, the second within the ttl, the first invokes the
\* adapter and returns cached = false, and the second returns cached = true
\* with the same content and invokes nothing: one invocation in total.
C21_TwoIdenticalCalls ==
    [][/\ (/\ Len(providers) = 1
           /\ DOMAIN cache = {}
           /\ tasks[1].pc = "Invoking" /\ tasks[1].use_cache
           /\ tasks[2].pc = "New"
           /\ tasks'[1].pc # "Invoking"
           /\ tasks'[1].invoked[1].success)
          => /\ tasks'[1].pc = "Done"
             /\ tasks'[1].result # None
             /\ ~tasks'[1].cached
             /\ providers'[1].request_count = 1
       /\ (/\ Len(providers) = 1
           /\ tasks[1].pc = "Done" /\ tasks[1].use_cache
           /\ tasks[1].result # None /\ ~tasks[1].cached
           /\ tasks[2].pc = "New" /\ tasks'[2].pc # "New"
           /\ tasks'[2].use_cache
           /\ tasks'[2].prompt = tasks[1].prompt
           /\ WithinTtl(tasks[1].prompt, 1))
          => /\ tasks'[2].pc = "Done"
             /\ tasks'[2].result # None
             /\ tasks'[2].cached
             /\ tasks'[2].content = tasks[1].content
             /\ tasks'[2].invoked = <<>>
             /\ providers' = providers
             /\ providers[1].request_count = 1]_vars

\* the calls t and u overlapped: one began while the other was in flight
Concurrent(t, u) == u \in tasks[t].peers \/ t \in tasks[u].peers

\* the positions of key k in the recency list ao
Positions(ao, k) == {i \in 1..Len(ao) : ao[i] = k}

\* C23: when two concurrent calls with the same fingerprint both missed the
\* cache and the provider answers both, then once the later answer has
\* arrived the cache holds the entry for the key with the response of that
\* later call (last write wins), the recency list holds the key once, and
\* the call returns that response.
C23_LastWriteWins ==
    [][\A t, u \in Tasks :
          (/\ t # u
           /\ tasks[t].pc = "Invoking" /\ tasks'[t].pc # "Invoking"
           /\ tasks'[t].invoked[1].success
           /\ tasks[t].use_cache /\ tasks[u].use_cache
           /\ tasks[u].prompt = tasks[t].prompt
           /\ tasks[u].provider = tasks[t].provider
           /\ Len(tasks[u].invoked) >= 1
           /\ tasks[u].invoked[1].returned /\ tasks[u].invoked[1].success
           /\ Concurrent(t, u))
          => LET k == generate_key(tasks[t].prompt,
                                   providers[tasks[t].provider].model_name)
             IN  /\ k \in DOMAIN cache'
                 /\ cache'[k].response = tasks'[t].invoked[1].response
                 /\ cache'[k].response # tasks'[u].invoked[1].response
                 /\ Cardinality(Positions(access_order', k)) = 1
                 /\ tasks'[t].pc = "Done"
                 /\ tasks'[t].result = cache'[k].response]_vars

\* the adapter invocations made on provider p, by all calls, that have
\* returned or raised
InvocationsOn(p) ==
    {x \in Tasks \X (1..2) :
        /\ x[2] <= Len(tasks[x[1]].invoked)
        /\ tasks[x[1]].invoked[x[2]].provider = p
        /\ tasks[x[1]].invoked[x[2]].returned}

FailuresOn(p) ==
    {x \in InvocationsOn(p) : ~tasks[x[1]].invoked[x[2]].success}

\* C24: under any interleaving of concurrent calls no counter update is
\* lost, a provider's request_count and error_count being the numbers of
\* invocations made on it that have ended and that have failed, and the
\* cache's key map and recency list hold the same keys, each once, in
\* every reachable state.
C24_AtomicSections ==
    /\ \A p \in DOMAIN providers :
          /\ providers[p].request_count = Cardinality(InvocationsOn(p))
          /\ providers[p].error_count = Cardinality(FailuresOn(p))
          /\ providers[p].total_response_time
                = Cardinality(InvocationsOn(p) \ FailuresOn(p))
    /\ Keys(access_order) = DOMAIN cache
    /\ Len(access_order) = Cardinality(DOMAIN cache)

\* two overlapping calls with different prompts have both been answered
\* by the first provider, and the later set has evicted the other's entry
C24_Witness ==
    /\ Concurrent(1, 2)
    /\ tasks[1].pc = "Done" /\ tasks[2].pc = "Done"
    /\ tasks[1].use_cache /\ tasks[2].use_cache
    /\ tasks[1].prompt # tasks[2].prompt
    /\ tasks[1].result # None /\ tasks[2].result # None
    /\ ~tasks[1].cached /\ ~tasks[2].cached
    /\ tasks[1].provider = 1 /\ tasks[2].provider = 1
    /\ providers[1].request_count = 2
    /\ max_size = 1
    /\ Len(access_order) = 1
====
